---- MODULE Spec2Model ----
(***************************************************************************)
(* Rider scheduling: the translation of a scheduling problem into a        *)
(* mixed-integer linear program (scheduling.ts, makeLP), the linear        *)
(* expression layer it is built on (lp.ts) and the decoding of a solved    *)
(* assignment into a rider x timeslice grid (makeLP.solve).                *)
(*                                                                         *)
(* Arrays are functions over 0..n-1, as in the source.  An optional value  *)
(* (`undefined` or a value) is the empty sequence or a one-element         *)
(* sequence.  Numbers returned by the solver are rationals <<num, den>>.   *)
(***************************************************************************)
EXTENDS Integers, Sequences, FiniteSets, TLC

VARIABLES
  input,      \* the arguments of makeLP
  pc,         \* position: "start", "validated", "thrown", "built", "solved";
              \* "lp" when the expression layer is used on its own
  error,      \* the Error thrown by assert or by checkVar, if any
  objective,  \* makeLP's objective (a LinExpr)
  constraints,\* makeLP's constraints (a sequence of Constraint)
  created,    \* the variable instances created so far (new BoolVar / new RealVar)
  solution,   \* solve(): what lp.minimize returned (undefined or a LinExpr)
  assignment, \* solve(): the grid it allocated (undefined while it has not)
  result,     \* solve(): what it returned (undefined or the grid)
  call        \* the last call made on the expression layer and what it returned

vars == <<input, pc, error, objective, constraints, created, solution, assignment, result, call>>

----------------------------------------------------------------------------
(* Bounds of the model *)

MaxRiders == 2
MaxTimeSlices == 3
MaxCells == 6
MaxDuration == 2
MaxMinDuration == 3
MaxGuaranteed == 2
MaxExpectedOfType == 1
MaxSolveCells == 4
MaxDecodeCandidates == 4
MaxSlack == 1
MaxCoefficient == 2

----------------------------------------------------------------------------
(* Optional values and arrays *)

Undefined == <<>>
Some(x) == <<x>>
IsDefined(o) == o /= <<>>
Get(o) == o[1]

Length(a) == Cardinality(DOMAIN a)
Indices(n) == 0 .. (n - 1)
Array(n, S) == [Indices(n) -> S]

RECURSIVE SumOver(_, _)
SumOver(f, S) ==
  IF S = {} THEN 0
  ELSE LET x == CHOOSE y \in S : TRUE IN f[x] + SumOver(f, S \ {x})

----------------------------------------------------------------------------
(* lp.ts: variables *)

\* `id` is the identity of the instance (which `new` it came from)
Var(id, type, name, lowerBound, upperBound) ==
  [id |-> id, type |-> type, name |-> name, lowerBound |-> lowerBound,
   upperBound |-> upperBound, auxData |-> Undefined]

RealVar(id, name, lowerBound, upperBound) == Var(id, "continuous", name, lowerBound, upperBound)

IntVar(id, name, lowerBound, upperBound) == Var(id, "integer", name, lowerBound, upperBound)

BoolVar(id, name) == IntVar(id, name, Some(0), Some(1))

(* lp.ts: linear expressions.  keys maps a name to the variable instance, *)
(* values maps it to the coefficient.                                     *)

EmptyFunction == [x \in {} |-> x]

NewLinExpr == [keys |-> EmptyFunction, values |-> EmptyFunction]

\* values[name] = n, keys[name] = v
Put(f, k, v) == (k :> v) @@ f

\* `keys` is a plain object (`= {}`): a lookup by a name it does not own
\* finds what it inherits from Object.prototype, which is not a variable
ObjectPrototypeNames ==
  {"constructor", "toString", "valueOf", "hasOwnProperty", "__proto__"}

\* this.keys[v.name] && this.keys[v.name] !== v: TRUE when checkVar throws
CheckVarThrows(e, v) ==
  \/ v.name \in DOMAIN e.keys /\ e.keys[v.name] /= v
  \/ v.name \notin DOMAIN e.keys /\ v.name \in ObjectPrototypeNames

\* what checkVar throws, if it throws
CheckVar(e, v) ==
  IF CheckVarThrows(e, v)
  THEN Some([name |-> "Error", message |-> Some("Mismatching variable named " \o v.name)])
  ELSE Undefined

SetCoefficient(e, v, n) ==
  IF CheckVarThrows(e, v) THEN e
  ELSE [e EXCEPT !.keys = Put(e.keys, v.name, v), !.values = Put(e.values, v.name, n)]

GetCoefficient(e, v) ==
  IF v.name \in DOMAIN e.values THEN Some(e.values[v.name]) ELSE Undefined

\* getVarCoefficients, as the set of its [var, coeff] pairs
GetVarCoefficients(e) == { <<e.keys[n], e.values[n]>> : n \in DOMAIN e.keys }

NewConstraint(name, lowerBound, upperBound) ==
  [name |-> name, lowerBound |-> lowerBound, upperBound |-> upperBound,
   keys |-> EmptyFunction, values |-> EmptyFunction]

\* an optional constraint's setCoefficient (the `?.` of the source)
OptSetCoefficient(o, v, n) == IF IsDefined(o) THEN Some(SetCoefficient(Get(o), v, n)) ELSE o

----------------------------------------------------------------------------
(* scheduling.ts: the inputs of makeLP *)

Types == {"bike", "scooter"}

NumRiders(in) == Length(in.guaranteed)
NumTimeSlices(in) == Length(in.expected)
TypesOf(in) == DOMAIN in.expectedOfType

Shapes ==
  { s \in (1 .. MaxRiders) \X (1 .. MaxTimeSlices) : s[1] * s[2] <= MaxCells }

\* every rider available in every unit-long timeslice, nobody expected
BaseInput(R, T) ==
  [duration       |-> [t \in Indices(T) |-> 1],
   expected       |-> [t \in Indices(T) |-> 0],
   expectedOfType |-> [type \in Types |-> [t \in Indices(T) |-> 0]],
   riderType      |-> [r \in Indices(R) |-> IF r % 2 = 0 THEN "bike" ELSE "scooter"],
   available      |-> [t \in Indices(T) |-> [r \in Indices(R) |-> TRUE]],
   guaranteed     |-> [r \in Indices(R) |-> 0],
   minDuration    |-> 1]

Availabilities(R, T) == Array(T, Array(R, BOOLEAN))

\* availability varies
AvailabilityInputs(shapes) ==
  UNION { { [BaseInput(s[1], s[2]) EXCEPT !.available = a] :
              a \in Availabilities(s[1], s[2]) } : s \in shapes }

\* availability, durations and the minimum duration vary
ShiftInputs(shapes) ==
  UNION { { [BaseInput(s[1], s[2]) EXCEPT !.available = a, !.duration = d, !.minDuration = m] :
              a \in Availabilities(s[1], s[2]),
              d \in Array(s[2], 0 .. MaxDuration),
              m \in 0 .. MaxMinDuration } : s \in shapes }

\* availability and the expected number of riders vary
DemandInputs(shapes) ==
  UNION { { [BaseInput(s[1], s[2]) EXCEPT !.available = a, !.expected = e] :
              a \in Availabilities(s[1], s[2]),
              e \in Array(s[2], 0 .. s[1]) } : s \in shapes }

\* availability, the riders' types and one per-type expectation vary, with
\* or without the same expectation for the timeslice as a whole
TypeInputs(shapes) ==
  UNION { { [BaseInput(s[1], s[2]) EXCEPT !.available = a, !.riderType = ty,
                                          !.expectedOfType[x[1]][x[2]] = x[3],
                                          !.expected[x[2]] = IF x[4] THEN x[3] ELSE 0] :
              a \in Availabilities(s[1], s[2]),
              ty \in Array(s[1], Types),
              x \in Types \X Indices(s[2]) \X (0 .. MaxExpectedOfType) \X BOOLEAN } : s \in shapes }

\* availability and the guaranteed time vary
GuaranteedInputs(shapes) ==
  UNION { { [BaseInput(s[1], s[2]) EXCEPT !.available = a, !.guaranteed = g] :
              a \in Availabilities(s[1], s[2]),
              g \in Array(s[1], 0 .. MaxGuaranteed) } : s \in shapes }

\* the duration of one timeslice varies, with or without one rider of the
\* type of rider 0 expected in it
DurationInputs(shapes) ==
  UNION { { [BaseInput(s[1], s[2]) EXCEPT
               !.duration[x[1]] = x[2],
               !.expected[x[1]] = IF x[3] THEN 1 ELSE 0,
               !.expectedOfType["bike"][x[1]] = IF x[3] THEN 1 ELSE 0] :
              x \in Indices(s[2]) \X (0 .. MaxDuration) \X BOOLEAN } : s \in shapes }

\* inputs that break one of the shape or value assumptions
InvalidInputs(shapes) ==
  UNION { LET R == s[1]
              T == s[2]
              b == BaseInput(R, T)
          IN    { [b EXCEPT !.duration = [t \in Indices(n) |-> 1]] : n \in {T - 1, T + 1} }
           \cup { [b EXCEPT !.expectedOfType[type] = [t \in Indices(n) |-> 0]] :
                     type \in Types, n \in {T - 1, T + 1} }
           \cup { [b EXCEPT !.riderType = [r \in Indices(n) |-> "bike"]] : n \in {R - 1, R + 1} }
           \cup { [b EXCEPT !.available = [t \in Indices(n) |-> [r \in Indices(R) |-> TRUE]]] :
                     n \in {T - 1, T + 1} }
           \cup { [b EXCEPT !.available[t] = [r \in Indices(n) |-> TRUE]] :
                     t \in Indices(T), n \in {R - 1, R + 1} }
           \cup { [b EXCEPT !.duration[t] = -1] : t \in Indices(T) }
           \cup { [b EXCEPT !.expected[t] = n] : t \in Indices(T), n \in {-1, R + 1} }
           \cup { [b EXCEPT !.riderType[r] = "van"] : r \in Indices(R) }
        : s \in shapes }

----------------------------------------------------------------------------
(* scheduling.ts: assert and the checks of makeLP *)

\* assert(condition, msg): what it throws, if it throws
assert(condition, msg) ==
  IF condition THEN Undefined ELSE Some([name |-> "Error", message |-> msg])

\* the assertions of makeLP, in order; none passes a message
Assertions(in) ==
  LET numRiders == NumRiders(in)
      numTimeSlices == NumTimeSlices(in)
  IN << assert(Length(in.duration) = numTimeSlices, Undefined),
        assert(Length(in.expected) = numTimeSlices, Undefined),
        assert(\A type \in TypesOf(in) : Length(in.expectedOfType[type]) = numTimeSlices, Undefined),
        assert(Length(in.riderType) = numRiders, Undefined),
        assert(Length(in.available) = numTimeSlices, Undefined),
        assert(\A t \in DOMAIN in.available : Length(in.available[t]) = numRiders, Undefined),
        assert(Length(in.guaranteed) = numRiders, Undefined),
        assert(\A t \in DOMAIN in.duration : 0 <= in.duration[t], Undefined),
        assert(\A t \in DOMAIN in.expected : 0 <= in.expected[t] /\ in.expected[t] <= numRiders, Undefined),
        assert(\A r \in DOMAIN in.riderType : in.riderType[r] \in TypesOf(in), Undefined) >>

\* the first assertion that throws, if any
FirstThrown(in) ==
  LET a == Assertions(in)
      failing == { i \in DOMAIN a : IsDefined(a[i]) }
  IN IF failing = {} THEN Undefined
     ELSE a[CHOOSE i \in failing : \A j \in failing : i <= j]

----------------------------------------------------------------------------
(* scheduling.ts: the construction of the linear program *)

\* the template strings that name variables and constraints
CandidateName(rider, t1, t2) ==
  "a[" \o ToString(rider) \o "][" \o ToString(t1) \o ".." \o ToString(t2) \o "]"
TimeName(rider) == "time[" \o ToString(rider) \o "]"
TimeCountedName(rider) == "timeCounted[" \o ToString(rider) \o "]"
EnoughName(t) == "enough[" \o ToString(t) \o "]"
EnoughOfTypeName(type, t) == "enough[" \o type \o "][" \o ToString(t) \o "]"
DisjointName(rider, t) == "disjoint[" \o ToString(rider) \o "][" \o ToString(t) \o "]"

\* `count ? ... : undefined` and `available[t][rider] ? ... : undefined`
Truthy(count) == count /= 0

\* line 190: new lp.Constraint(`timeCounted[${rider}]`, 0)
NewTimeCounted(rider) == NewConstraint(TimeCountedName(rider), Some(0), Undefined)

\* lines 191-193: count ? new lp.Constraint(`enough[${t}]`, count) : undefined
NewEnough(in, t) ==
  IF Truthy(in.expected[t])
  THEN Some(NewConstraint(EnoughName(t), Some(in.expected[t]), Undefined))
  ELSE Undefined

\* lines 194-198: the same for a type
NewEnoughOfType(in, type, t) ==
  IF Truthy(in.expectedOfType[type][t])
  THEN Some(NewConstraint(EnoughOfTypeName(type, t), Some(in.expectedOfType[type][t]), Undefined))
  ELSE Undefined

NewDisjointEverywhere(in, rider, t) ==
  Some(NewConstraint(DisjointName(rider, t), Undefined, Some(1)))

\* lines 199-203: available[t][rider] ? new lp.Constraint(`disjoint[...]`, undefined, 1) : undefined
NewDisjoint(in, rider, t) ==
  IF in.available[t][rider]
  THEN Some(NewConstraint(DisjointName(rider, t), Undefined, Some(1)))
  ELSE Undefined

\* the locals of makeLP before the candidate loop (lines 188-205)
InitialLocals(in) ==
  [objective   |-> NewLinExpr,
   timeCounted |-> [rider \in Indices(NumRiders(in)) |-> NewTimeCounted(rider)],
   haveEnoughRiders |-> [t \in Indices(NumTimeSlices(in)) |-> NewEnough(in, t)],
   haveEnoughRidersOfType |-> [type \in TypesOf(in) |->
                      [t \in Indices(NumTimeSlices(in)) |-> NewEnoughOfType(in, type, t)]],
   disjointAllocations |-> [rider \in Indices(NumRiders(in)) |->
                      [t \in Indices(NumTimeSlices(in)) |-> NewDisjoint(in, rider, t)]],
   timeCoefficient |-> 0,
   created |-> {}]

RECURSIVE CoverLoopShort(_, _, _, _, _)
CoverLoopShort(m, in, v, t, t2) ==
  IF t < t2
  THEN LET rider == Get(v.auxData).rider
           type == in.riderType[rider]
       IN CoverLoopShort([m EXCEPT
                       !.haveEnoughRiders[t] = OptSetCoefficient(@, v, 1),
                       !.haveEnoughRidersOfType[type][t] = OptSetCoefficient(@, v, 1),
                       !.disjointAllocations[rider][t] = OptSetCoefficient(@, v, 1)],
                    in, v, t + 1, t2)
  ELSE m

\* the `for (t = t1; t <= t2; ...)` loop over the slices a candidate covers
RECURSIVE CoverLoop(_, _, _, _, _)
CoverLoop(m, in, v, t, t2) ==
  IF t <= t2
  THEN LET rider == Get(v.auxData).rider
           type == in.riderType[rider]
       IN CoverLoop([m EXCEPT
                       !.haveEnoughRiders[t] = OptSetCoefficient(@, v, 1),
                       !.haveEnoughRidersOfType[type][t] = OptSetCoefficient(@, v, 1),
                       !.disjointAllocations[rider][t] = OptSetCoefficient(@, v, 1)],
                    in, v, t + 1, t2)
  ELSE m

TimeCountedCoefficientPlus(d) == d

\* line 216: the coefficient of a candidate that lasts d in timeCounted[rider]
TimeCountedCoefficient(d) == 0 - d

AddCandidatePerSlot(m, in, rider, t1, t2, d) ==
  LET v == [BoolVar(Cardinality(m.created), CandidateName(rider, t1, t2))
              EXCEPT !.auxData = Some([rider |-> rider, t1 |-> t1, t2 |-> t2])]
      m1 == [m EXCEPT !.objective = SetCoefficient(@, v, 1),
                      !.timeCounted[rider] = SetCoefficient(@, v, TimeCountedCoefficient(d)),
                      !.created = @ \cup {v}]
      m2 == CoverLoop(m1, in, v, t1, t2)
  IN [m2 EXCEPT !.timeCoefficient = @ + (t2 - t1 + 1)]

\* the body of `if (d >= minDuration)`: one more candidate variable
AddCandidate(m, in, rider, t1, t2, d) ==
  LET v == [BoolVar(Cardinality(m.created), CandidateName(rider, t1, t2))
              EXCEPT !.auxData = Some([rider |-> rider, t1 |-> t1, t2 |-> t2])]
      m1 == [m EXCEPT !.objective = SetCoefficient(@, v, 1),
                      !.timeCounted[rider] = SetCoefficient(@, v, TimeCountedCoefficient(d)),
                      !.created = @ \cup {v}]
      m2 == CoverLoop(m1, in, v, t1, t2)
  IN [m2 EXCEPT !.timeCoefficient = @ + 1]

LongEnoughStrictly(d, minDuration) == d > minDuration

\* whether a range that lasts d is long enough to be a candidate
LongEnough(d, minDuration) == d >= minDuration

\* the `for (t2 = t1; t2 < numTimeSlices && available[t2][rider]; ...)` loop
RECURSIVE EndLoop(_, _, _, _, _, _)
EndLoop(m, in, rider, t1, t2, d) ==
  IF t2 < NumTimeSlices(in) /\ in.available[t2][rider]
  THEN LET d2 == d + in.duration[t2]
       IN EndLoop(IF LongEnough(d2, in.minDuration)
                  THEN AddCandidate(m, in, rider, t1, t2, d2) ELSE m,
                  in, rider, t1, t2 + 1, d2)
  ELSE m

\* the `for (t1 = 0; ...)` loop
RECURSIVE StartLoop(_, _, _, _)
StartLoop(m, in, rider, t1) ==
  IF t1 < NumTimeSlices(in)
  THEN StartLoop(EndLoop(m, in, rider, t1, t1, 0), in, rider, t1 + 1)
  ELSE m

\* the first `for (rider = 0; ...)` loop
RECURSIVE CandidateLoop(_, _, _)
CandidateLoop(m, in, rider) ==
  IF rider < NumRiders(in)
  THEN CandidateLoop(StartLoop(m, in, rider, 0), in, rider + 1)
  ELSE m

\* the second `for (rider = 0; ...)` loop: the time[rider] variables
RECURSIVE TimeLoop(_, _, _)
TimeLoop(m, in, rider) ==
  IF rider < NumRiders(in)
  THEN LET v == RealVar(Cardinality(m.created), TimeName(rider),
                        Some(in.guaranteed[rider]), Undefined)
       IN TimeLoop([m EXCEPT !.objective = SetCoefficient(@, v, m.timeCoefficient),
                             !.timeCounted[rider] = SetCoefficient(@, v, 1),
                             !.created = @ \cup {v}],
                   in, rider + 1)
  ELSE m

\* append(dest, source): the defined elements of source[from..], in order, after dest
RECURSIVE append(_, _, _)
append(dest, source, from) ==
  IF from < Length(source)
  THEN append(IF IsDefined(source[from]) THEN dest \o <<Get(source[from])>> ELSE dest,
              source, from + 1)
  ELSE dest

\* an array of constraints as a sequence
RECURSIVE Spread(_, _)
Spread(a, from) == IF from < Length(a) THEN <<a[from]>> \o Spread(a, from + 1) ELSE <<>>

\* types.forEach((type) => append(constraints, haveEnoughRidersOfType[type]))
RECURSIVE AppendTypes(_, _, _)
AppendTypes(dest, byType, types) ==
  IF types = {} THEN dest
  ELSE LET type == CHOOSE x \in types : TRUE   \* Object.keys order: one fixed order
       IN AppendTypes(append(dest, byType[type], 0), byType, types \ {type})

\* disjointAllocations.forEach((a) => append(constraints, a))
RECURSIVE AppendRiders(_, _, _)
AppendRiders(dest, byRider, from) ==
  IF from < Length(byRider)
  THEN AppendRiders(append(dest, byRider[from], 0), byRider, from + 1)
  ELSE dest

\* lines 234-237: the constraint list
Assemble(m) ==
  AppendRiders(AppendTypes(append(Spread(m.timeCounted, 0), m.haveEnoughRiders, 0),
                           m.haveEnoughRidersOfType, DOMAIN m.haveEnoughRidersOfType),
               m.disjointAllocations, 0)

\* the locals of makeLP after both loops
Locals(in) == TimeLoop(CandidateLoop(InitialLocals(in), in, 0), in, 0)

----------------------------------------------------------------------------
(* lp.ts: saturate *)

\* setCoefficient(v, 0) for every v of a set of variables
RECURSIVE SetZero(_, _)
SetZero(e, variables) ==
  IF variables = {} THEN e
  ELSE LET v == CHOOSE x \in variables : TRUE
           next == SetCoefficient(e, v, 0)
       IN IF next = next THEN SetZero(next, variables \ {v}) ELSE next

\* the loop of saturate over the constraints list[from], list[from + 1], ...
RECURSIVE SetZeroAll(_, _, _)
SetZeroAll(e, list, from) ==
  IF from <= Len(list)
  THEN LET next == SetZero(e, { p[1] : p \in GetVarCoefficients(list[from]) })
       IN IF next = next THEN SetZeroAll(next, list, from + 1) ELSE next
  ELSE e

RECURSIVE SetTermsNegated(_, _)
SetTermsNegated(e, terms) ==
  IF terms = {} THEN e
  ELSE LET p == CHOOSE x \in terms : TRUE
           next == SetCoefficient(e, p[1], 0 - p[2])
       IN IF next = next THEN SetTermsNegated(next, terms \ {p}) ELSE next

\* setCoefficient(v, coefficient) for every [v, coefficient] of a set of terms
RECURSIVE SetTerms(_, _)
SetTerms(e, terms) ==
  IF terms = {} THEN e
  ELSE LET p == CHOOSE x \in terms : TRUE
           next == SetCoefficient(e, p[1], p[2])
       IN IF next = next THEN SetTerms(next, terms \ {p}) ELSE next

saturateWithoutConstraints(obj, cs) == SetTerms(NewLinExpr, GetVarCoefficients(obj))

saturate(obj, cs) == SetTerms(SetZeroAll(NewLinExpr, cs, 1), GetVarCoefficients(obj))

\* what the first loop of saturate throws for one constraint, if it throws
RECURSIVE SetZeroThrown(_, _)
SetZeroThrown(e, variables) ==
  IF variables = {} THEN Undefined
  ELSE LET v == CHOOSE x \in variables : TRUE
       IN IF CheckVarThrows(e, v) THEN CheckVar(e, v)
          ELSE SetZeroThrown(SetCoefficient(e, v, 0), variables \ {v})

\* what the first loop of saturate throws, if it throws
RECURSIVE SetZeroAllThrown(_, _, _)
SetZeroAllThrown(e, list, from) ==
  IF from <= Len(list)
  THEN LET variables == { p[1] : p \in GetVarCoefficients(list[from]) }
           thrown == SetZeroThrown(e, variables)
       IN IF IsDefined(thrown) THEN thrown
          ELSE SetZeroAllThrown(SetZero(e, variables), list, from + 1)
  ELSE Undefined

\* what the second loop of saturate throws, if it throws
RECURSIVE SetTermsThrown(_, _)
SetTermsThrown(e, terms) ==
  IF terms = {} THEN Undefined
  ELSE LET p == CHOOSE x \in terms : TRUE
       IN IF CheckVarThrows(e, p[1]) THEN CheckVar(e, p[1])
          ELSE SetTermsThrown(SetCoefficient(e, p[1], p[2]), terms \ {p})

\* what saturate throws, if it throws; saturate(obj, cs) is what it returns
\* when it does not
SaturateThrown(obj, cs) ==
  LET thrown == SetZeroAllThrown(NewLinExpr, cs, 1)
  IN IF IsDefined(thrown) THEN thrown
     ELSE SetTermsThrown(SetZeroAll(NewLinExpr, cs, 1), GetVarCoefficients(obj))

----------------------------------------------------------------------------
(* lp.ts, minimize: what the engine is given.  An assignment maps the name *)
(* of each variable to a number.                                           *)

\* the value of an expression: the sum of coefficient * value over its terms
ValueOf(e, x) == SumOver([n \in DOMAIN e.values |-> e.values[n] * x[n]], DOMAIN e.values)

\* engine.addConstraint(lowerBound ?? -Infinity, upperBound ?? +Infinity)
Satisfies(c, x) ==
  /\ IsDefined(c.lowerBound) => Get(c.lowerBound) <= ValueOf(c, x)
  /\ IsDefined(c.upperBound) => ValueOf(c, x) <= Get(c.upperBound)

\* the values below which the model looks for the value of a continuous
\* variable: no rider is counted more than the guaranteed time or the whole
\* day, and MaxSlack more
TimeLimit(in) ==
  LET g == { in.guaranteed[r] : r \in DOMAIN in.guaranteed }
  IN (CHOOSE x \in g \cup {0} : \A y \in g \cup {0} : y <= x)
       + SumOver(in.duration, DOMAIN in.duration) + MaxSlack

\* engine.addVariable(name, lowerBound ?? -Infinity, upperBound ?? +Infinity, type, ...):
\* the values the variable can take, up to the limit
VarValues(v, limit) ==
  (IF IsDefined(v.lowerBound) THEN Get(v.lowerBound) ELSE 0 - limit)
    .. (IF IsDefined(v.upperBound) THEN Get(v.upperBound) ELSE limit)

\* the assignments to the variables of an expression, within their bounds
RECURSIVE Assignments(_, _, _)
Assignments(e, names, limit) ==
  IF names = {} THEN {EmptyFunction}
  ELSE LET n == CHOOSE x \in names : TRUE
       IN { Put(x, n, val) : x \in Assignments(e, names \ {n}, limit),
                             val \in VarValues(e.keys[n], limit) }

\* the assignments the engine can report as valid: within the bounds of the
\* variables and satisfying every constraint
Feasible(newObjective, cs, limit) ==
  { x \in Assignments(newObjective, DOMAIN newObjective.keys, limit) :
      \A i \in DOMAIN cs : Satisfies(cs[i], x) }

\* solution.getVariableValue: the numbers of a solution are rationals
Rational(n) == <<n, 1>>
Half == <<1, 2>>
GreaterThan(a, b) == a[1] * b[2] > b[1] * a[2]

\* minimize, lines 360-364: the solution as a LinExpr
ResultOf(newObjective, x) ==
  [keys |-> newObjective.keys, values |-> [n \in DOMAIN newObjective.keys |-> x[n]]]

----------------------------------------------------------------------------
(* scheduling.ts, solve: decoding *)

IsAssignedFromHalf(v, c) == IsDefined(v.auxData) /\ ~GreaterThan(Half, c)

\* `v.auxData && c > 0.5`
IsAssigned(v, c) == IsDefined(v.auxData) /\ GreaterThan(c, Half)

RECURSIVE MarkLoopExclusive(_, _, _, _)
MarkLoopExclusive(grid, rider, t, t2) ==
  IF t < t2 THEN MarkLoopExclusive([grid EXCEPT ![rider][t] = TRUE], rider, t + 1, t2) ELSE grid

\* `for (t = t1; t <= t2; ...) assignment[rider][t] = true`
RECURSIVE MarkLoop(_, _, _, _)
MarkLoop(grid, rider, t, t2) ==
  IF t <= t2 THEN MarkLoop([grid EXCEPT ![rider][t] = TRUE], rider, t + 1, t2) ELSE grid

\* `for (const [v, c] of solution.getVarCoefficients())`
RECURSIVE DecodeLoop(_, _)
DecodeLoop(grid, terms) ==
  IF terms = {} THEN grid
  ELSE LET p == CHOOSE x \in terms : TRUE
           a == Get(p[1].auxData)
       IN DecodeLoop(IF IsAssigned(p[1], p[2]) THEN MarkLoop(grid, a.rider, a.t1, a.t2) ELSE grid,
                     terms \ {p})

\* lines 245-255
Decode(in, sol) ==
  DecodeLoop([rider \in Indices(NumRiders(in)) |-> [t \in Indices(NumTimeSlices(in)) |-> FALSE]],
             GetVarCoefficients(sol))

----------------------------------------------------------------------------
(* The calls *)

InitWith(inputs) ==
  /\ input \in inputs
  /\ pc = "start"
  /\ error = Undefined
  /\ objective = Undefined
  /\ constraints = Undefined
  /\ created = {}
  /\ solution = Undefined
  /\ assignment = Undefined
  /\ result = Undefined
  /\ call = Undefined

\* makeLP, lines 171-186: the checks of the input
Validate ==
  /\ pc = "start"
  /\ LET thrown == FirstThrown(input)
     IN /\ error' = thrown
        /\ pc' = IF IsDefined(thrown) THEN "thrown" ELSE "validated"
  /\ UNCHANGED <<input, objective, constraints, created, solution, assignment, result, call>>

\* makeLP, lines 188-262: the objective and the constraints
Construct ==
  /\ pc = "validated"
  /\ LET m == Locals(input)
     IN /\ objective' = Some(m.objective)
        /\ constraints' = Some(Assemble(m))
        /\ created' = m.created
  /\ pc' = "built"
  /\ UNCHANGED <<input, error, solution, assignment, result, call>>

SolveReturningAllFalse(found) ==
  /\ pc = "built"
  /\ solution' = found
  /\ LET grid == IF IsDefined(found) THEN Decode(input, Get(found))
                 ELSE [r \in Indices(NumRiders(input)) |->
                         [t \in Indices(NumTimeSlices(input)) |-> FALSE]]
     IN assignment' = Some(grid) /\ result' = Some(grid)
  /\ pc' = "solved"
  /\ UNCHANGED <<input, error, objective, constraints, created, call>>

\* solve() when lp.minimize returns `found`: undefined or a LinExpr
SolveReturning(found) ==
  /\ pc = "built"
  /\ solution' = found
  /\ IF ~IsDefined(found)
     THEN assignment' = Undefined /\ result' = Undefined
     ELSE LET grid == Decode(input, Get(found))
          IN assignment' = Some(grid) /\ result' = Some(grid)
  /\ pc' = "solved"
  /\ UNCHANGED <<input, error, objective, constraints, created, call>>

\* solve() with an engine that reports a solution only if it is valid: one
\* of the feasible assignments, or none (there is none, or the time is up)
Solve ==
  /\ pc = "built"
  /\ \E found \in {Undefined} \cup
       { Some(ResultOf(saturate(Get(objective), Get(constraints)),
                       [n \in DOMAIN x |-> Rational(x[n])])) :
           x \in Feasible(saturate(Get(objective), Get(constraints)), Get(constraints),
                          TimeLimit(input)) } :
       SolveReturning(found)

\* the values an engine of any precision can give a variable
AnyValues == {Rational(0), <<49, 100>>, Half, <<500001, 1000000>>, Rational(1)}

\* solve() with an engine about which nothing is assumed but that it gives a
\* value to every variable
SolveAny ==
  /\ pc = "built"
  /\ \E x \in [DOMAIN saturate(Get(objective), Get(constraints)).keys -> AnyValues] :
       SolveReturning(Some(ResultOf(saturate(Get(objective), Get(constraints)), x)))

\* makeLP alone, over all the inputs
Init ==
  InitWith(ShiftInputs(Shapes) \cup DemandInputs(Shapes) \cup TypeInputs(Shapes)
             \cup GuaranteedInputs(Shapes) \cup InvalidInputs(Shapes))

Next == Validate \/ Construct

Spec == Init /\ [][Next]_vars

\* makeLP and solve(), over the small inputs
SolveShapes == { s \in Shapes : s[1] * s[2] <= MaxSolveCells }

InitSolve ==
  InitWith(DemandInputs(SolveShapes) \cup TypeInputs(SolveShapes)
             \cup GuaranteedInputs(SolveShapes) \cup DurationInputs(SolveShapes)
             \cup InvalidInputs(SolveShapes))

NextSolve == Validate \/ Construct \/ Solve

SpecSolve == InitSolve /\ [][NextSolve]_vars

----------------------------------------------------------------------------
(* What the claims speak about *)

Riders == Indices(NumRiders(input))
TimeSlices == Indices(NumTimeSlices(input))

Range(rider, t1, t2) == [rider |-> rider, t1 |-> t1, t2 |-> t2]
Covers(c, t) == c.t1 <= t /\ t <= c.t2
NameOf(c) == CandidateName(c.rider, c.t1, c.t2)

\* the ranges a rider can work: available throughout and long enough
AssignableRanges(in) ==
  { c \in { Range(r, t1, t2) : r \in Indices(NumRiders(in)),
                               t1 \in Indices(NumTimeSlices(in)),
                               t2 \in Indices(NumTimeSlices(in)) } :
      /\ c.t1 <= c.t2
      /\ \A t \in c.t1 .. c.t2 : in.available[t][c.rider]
      /\ SumOver(in.duration, c.t1 .. c.t2) >= in.minDuration }

\* the candidate variables among a set of variable instances
CandidateVars(variables) == { v \in variables : IsDefined(v.auxData) }
CandidatesOf(variables) == { Get(v.auxData) : v \in CandidateVars(variables) }

\* the constraints of the built model that have a given name
Named(name) == { i \in DOMAIN Get(constraints) : Get(constraints)[i].name = name }
TheConstraint(name) == Get(constraints)[CHOOSE i \in Named(name) : TRUE]

\* the variable of the built model with a given name is the instance makeLP created
IsCreated(c, name) == c.keys[name] \in created /\ c.keys[name].name = name

\* the input with rider r made unavailable in timeslice s
WithoutSlot(in, r, s) == [in EXCEPT !.available[s][r] = FALSE]

----------------------------------------------------------------------------
(* C1: the candidate variables makeLP creates are exactly the ranges        *)
(* (rider, t1..t2) in which the rider is available throughout and whose     *)
(* durations add up to minDuration or more, one Boolean variable each; and  *)
(* making a rider unavailable in one more timeslice removes exactly that    *)
(* rider's candidates that cover the timeslice.                             *)
C1_CandidatesExact ==
  pc = "built" =>
    /\ CandidatesOf(created) = AssignableRanges(input)
    /\ Cardinality(CandidateVars(created)) = Cardinality(AssignableRanges(input))
    /\ \A v \in CandidateVars(created) :
         v = [BoolVar(v.id, NameOf(Get(v.auxData))) EXCEPT !.auxData = v.auxData]
    /\ \A r \in Riders : \A s \in TimeSlices :
         input.available[s][r] =>
           CandidatesOf(Locals(WithoutSlot(input, r, s)).created)
             = { c \in CandidatesOf(created) : ~(c.rider = r /\ Covers(c, s)) }

\* a built model with a candidate, a range left out for being too short, a
\* range left out for a gap in the availability, and a timeslice whose
\* removal takes candidates away
C1_Witness ==
  /\ pc = "built"
  /\ CandidatesOf(created) /= {}
  /\ \E r \in Riders : \E t1, t2 \in TimeSlices :
       /\ t1 < t2
       /\ \A t \in t1 .. t2 : input.available[t][r]
       /\ SumOver(input.duration, t1 .. t2) < input.minDuration
       /\ Range(r, t1, t2) \notin CandidatesOf(created)
  /\ \E r \in Riders : \E t1, t2 \in TimeSlices :
       /\ t1 < t2
       /\ Range(r, t1, t1) \in CandidatesOf(created)
       /\ ~input.available[t2][r]
       /\ Range(r, t1, t2) \notin CandidatesOf(created)
  /\ \E r \in Riders : \E s \in TimeSlices :
       /\ input.available[s][r]
       /\ CandidatesOf(Locals(WithoutSlot(input, r, s)).created) /= CandidatesOf(created)

----------------------------------------------------------------------------
\* the arguments of makeLP an error message could name
FieldNames == {"duration", "expected", "expectedOfType", "riderType", "available", "guaranteed"}

\* the inputs that satisfy the input contract
IsValid(in) ==
  LET R == NumRiders(in)
      T == NumTimeSlices(in)
  IN /\ Length(in.duration) = T
     /\ \A type \in TypesOf(in) : Length(in.expectedOfType[type]) = T
     /\ Length(in.riderType) = R
     /\ Length(in.available) = T
     /\ \A t \in DOMAIN in.available : Length(in.available[t]) = R
     /\ \A t \in DOMAIN in.duration : in.duration[t] >= 0
     /\ \A t \in DOMAIN in.expected : in.expected[t] \in 0 .. R
     /\ \A r \in DOMAIN in.riderType : in.riderType[r] \in TypesOf(in)

(* C2: makeLP checks its input before it constructs anything: an input     *)
(* with an inconsistent length, a negative duration, an expected count      *)
(* outside 0..numRiders or a rider type without an expectedOfType entry     *)
(* makes the call fail with an error that names the offending field, and    *)
(* nothing has been created by then.                                        *)
C2_InvalidInputNamed ==
  /\ (pc /= "start" /\ ~IsValid(input)) => pc = "thrown"
  /\ pc = "thrown" =>
       /\ ~IsValid(input)
       /\ created = {} /\ objective = Undefined /\ constraints = Undefined
       /\ IsDefined(Get(error).message)
       /\ Get(Get(error).message) \in FieldNames

----------------------------------------------------------------------------
(* C8: the model has a constraint enough[t] exactly when expected[t] > 0,   *)
(* with lower bound expected[t] and no upper bound, whose terms are the     *)
(* candidates of any rider that cover t, each with coefficient 1; and a     *)
(* constraint enough[type][t] exactly when expectedOfType[type][t] > 0,     *)
(* with that lower bound, whose terms are the candidates that cover t of    *)
(* the riders of that type, each with coefficient 1.                        *)
C8_EnoughConstraints ==
  pc = "built" =>
    /\ \A t \in TimeSlices :
         /\ Cardinality(Named(EnoughName(t))) = (IF input.expected[t] > 0 THEN 1 ELSE 0)
         /\ input.expected[t] > 0 =>
              LET c == TheConstraint(EnoughName(t))
              IN /\ c.lowerBound = Some(input.expected[t])
                 /\ c.upperBound = Undefined
                 /\ DOMAIN c.values = { NameOf(x) : x \in { y \in AssignableRanges(input) : Covers(y, t) } }
                 /\ DOMAIN c.keys = DOMAIN c.values
                 /\ \A n \in DOMAIN c.values : c.values[n] = 1 /\ IsCreated(c, n)
    /\ \A type \in TypesOf(input) : \A t \in TimeSlices :
         /\ Cardinality(Named(EnoughOfTypeName(type, t)))
              = (IF input.expectedOfType[type][t] > 0 THEN 1 ELSE 0)
         /\ input.expectedOfType[type][t] > 0 =>
              LET c == TheConstraint(EnoughOfTypeName(type, t))
              IN /\ c.lowerBound = Some(input.expectedOfType[type][t])
                 /\ c.upperBound = Undefined
                 /\ DOMAIN c.values =
                      { NameOf(x) : x \in { y \in AssignableRanges(input) :
                                              Covers(y, t) /\ input.riderType[y.rider] = type } }
                 /\ DOMAIN c.keys = DOMAIN c.values
                 /\ \A n \in DOMAIN c.values : c.values[n] = 1 /\ IsCreated(c, n)

\* a built model with an enough[t] constraint of two terms or more, an
\* enough[type][t] constraint with a term, a rider of another type whose
\* candidate covers that timeslice, and a timeslice without any of the two
C8_Witness ==
  /\ pc = "built"
  /\ \E t \in TimeSlices :
       /\ input.expected[t] > 0
       /\ Named(EnoughName(t)) /= {}
       /\ Cardinality(DOMAIN TheConstraint(EnoughName(t)).values) >= 2
  /\ \E type \in TypesOf(input) : \E t \in TimeSlices :
       /\ input.expectedOfType[type][t] > 0
       /\ Named(EnoughOfTypeName(type, t)) /= {}
       /\ DOMAIN TheConstraint(EnoughOfTypeName(type, t)).values /= {}
       /\ \E x \in AssignableRanges(input) :
            /\ Covers(x, t) /\ input.riderType[x.rider] /= type
            /\ NameOf(x) \notin DOMAIN TheConstraint(EnoughOfTypeName(type, t)).values
  /\ \E t \in TimeSlices :
       /\ input.expected[t] = 0 /\ Named(EnoughName(t)) = {}
       /\ \A type \in TypesOf(input) :
            input.expectedOfType[type][t] = 0 /\ Named(EnoughOfTypeName(type, t)) = {}

----------------------------------------------------------------------------
\* the constraints with an upper bound that have a term for the candidate x
UpperBoundedWith(x) ==
  { i \in DOMAIN Get(constraints) :
      /\ IsDefined(Get(constraints)[i].upperBound)
      /\ NameOf(x) \in DOMAIN Get(constraints)[i].values }

\* the assignment of 0 or 1 to the candidates that selects those of S
Selecting(S) == [n \in { NameOf(x) : x \in AssignableRanges(input) } |->
                   IF n \in { NameOf(x) : x \in S } THEN 1 ELSE 0]

(* C9: the model has a constraint disjoint[r][t] exactly when rider r is    *)
(* available in timeslice t, with upper bound 1 and no lower bound, whose   *)
(* terms are the candidates of r that cover t, each with coefficient 1; so  *)
(* a 0/1 assignment that satisfies them never selects two candidates of a   *)
(* rider that share a timeslice, and a candidate is in exactly one disjoint *)
(* constraint for each timeslice it covers.                                 *)
C9_DisjointConstraints ==
  pc = "built" =>
    /\ \A r \in Riders : \A t \in TimeSlices :
         /\ Cardinality(Named(DisjointName(r, t))) = (IF input.available[t][r] THEN 1 ELSE 0)
         /\ input.available[t][r] =>
              LET c == TheConstraint(DisjointName(r, t))
              IN /\ c.upperBound = Some(1)
                 /\ c.lowerBound = Undefined
                 /\ DOMAIN c.values =
                      { NameOf(x) : x \in { y \in AssignableRanges(input) :
                                              y.rider = r /\ Covers(y, t) } }
                 /\ DOMAIN c.keys = DOMAIN c.values
                 /\ \A n \in DOMAIN c.values : c.values[n] = 1 /\ IsCreated(c, n)
    /\ \A x \in AssignableRanges(input) :
         /\ UpperBoundedWith(x) = UNION { Named(DisjointName(x.rider, t)) : t \in x.t1 .. x.t2 }
         /\ Cardinality(UpperBoundedWith(x)) = x.t2 - x.t1 + 1
    /\ \A r \in Riders :
         \A S \in SUBSET { y \in AssignableRanges(input) : y.rider = r } :
           (\A t \in TimeSlices : \A i \in Named(DisjointName(r, t)) :
               Satisfies(Get(constraints)[i], Selecting(S)))
             => \A x, y \in S : x /= y => ~\E t \in TimeSlices : Covers(x, t) /\ Covers(y, t)

\* a built model where a rider is available in one timeslice and not in
\* another, one of its disjoint constraints has two terms or more, and the
\* rider has two candidates that can be selected together and two that
\* cannot
C9_Witness ==
  /\ pc = "built"
  /\ \E r \in Riders :
       /\ \E t \in TimeSlices : ~input.available[t][r] /\ Named(DisjointName(r, t)) = {}
       /\ \E t \in TimeSlices :
            /\ input.available[t][r]
            /\ Cardinality(DOMAIN TheConstraint(DisjointName(r, t)).values) >= 2
       /\ \E x, y \in { z \in AssignableRanges(input) : z.rider = r } :
            /\ x /= y
            /\ \A t \in TimeSlices : \A i \in Named(DisjointName(r, t)) :
                 Satisfies(Get(constraints)[i], Selecting({x, y}))
       /\ \E x, y \in { z \in AssignableRanges(input) : z.rider = r } :
            /\ x /= y
            /\ \E t \in TimeSlices : \E i \in Named(DisjointName(r, t)) :
                 ~Satisfies(Get(constraints)[i], Selecting({x, y}))

----------------------------------------------------------------------------
(* C10: for every rider r the model has exactly one constraint              *)
(* timeCounted[r], also when r has no candidate, with lower bound 0 and no  *)
(* upper bound, whose terms are time[r] with coefficient 1 and every        *)
(* candidate of r with coefficient minus the total duration of its range;   *)
(* candidates of other riders are not in it, so every candidate is in       *)
(* exactly one timeCounted constraint.                                      *)
C10_TimeCounted ==
  pc = "built" =>
    /\ \A r \in Riders :
         /\ Cardinality(Named(TimeCountedName(r))) = 1
         /\ LET c == TheConstraint(TimeCountedName(r))
                mine == { y \in AssignableRanges(input) : y.rider = r }
            IN /\ c.lowerBound = Some(0)
               /\ c.upperBound = Undefined
               /\ DOMAIN c.values = {TimeName(r)} \cup { NameOf(x) : x \in mine }
               /\ DOMAIN c.keys = DOMAIN c.values
               /\ c.values[TimeName(r)] = 1
               /\ c.keys[TimeName(r)] = RealVar(c.keys[TimeName(r)].id, TimeName(r),
                                                Some(input.guaranteed[r]), Undefined)
               /\ \A x \in mine :
                    /\ c.values[NameOf(x)] = 0 - SumOver(input.duration, x.t1 .. x.t2)
                    /\ IsCreated(c, NameOf(x))
    /\ \A x \in AssignableRanges(input) :
         { i \in DOMAIN Get(constraints) :
             /\ Get(constraints)[i].lowerBound = Some(0)
             /\ NameOf(x) \in DOMAIN Get(constraints)[i].values } = Named(TimeCountedName(x.rider))

\* a built model with a rider that has no candidate, a rider that has
\* candidates of different total durations, and two riders with candidates
C10_Witness ==
  /\ pc = "built"
  /\ \E r \in Riders :
       DOMAIN TheConstraint(TimeCountedName(r)).values = {TimeName(r)}
  /\ \E r \in Riders : \E x, y \in AssignableRanges(input) :
       /\ x.rider = r /\ y.rider = r
       /\ TheConstraint(TimeCountedName(r)).values[NameOf(x)]
            < TheConstraint(TimeCountedName(r)).values[NameOf(y)]
       /\ TheConstraint(TimeCountedName(r)).values[NameOf(y)] < 0
  /\ Cardinality(Riders) >= 2

\* makeLP and solve() with an engine of any precision, over the small inputs
\* with few candidates
InitDecode ==
  InitWith({ in \in AvailabilityInputs(SolveShapes) :
               Cardinality(AssignableRanges(in)) <= MaxDecodeCandidates }
             \cup InvalidInputs(SolveShapes))

NextDecode == Validate \/ Construct \/ SolveAny

SpecDecode == InitDecode /\ [][NextDecode]_vars

----------------------------------------------------------------------------
\* the value the solution gives to the candidate variable of a range
SolutionValue(c) == Get(solution).values[NameOf(c)]

(* C3: the grid solve() returns is a numRiders x numTimeSlices matrix of   *)
(* Booleans where grid[r][t] is true exactly when some candidate variable  *)
(* of r whose range covers t has a value above 0.5 in the solution; 0.5    *)
(* itself does not assign, and the time[r] variables set no cell, whatever *)
(* their value.                                                            *)
C3_DecodedGrid ==
  (pc = "solved" /\ IsDefined(solution)) =>
    /\ IsDefined(result)
    /\ Get(result) \in Array(NumRiders(input), Array(NumTimeSlices(input), BOOLEAN))
    /\ \A r \in Riders : \A t \in TimeSlices :
         Get(result)[r][t] <=>
           \E c \in AssignableRanges(input) :
             c.rider = r /\ Covers(c, t) /\ GreaterThan(SolutionValue(c), Half)

\* a decoded grid where a candidate valued 0.5 leaves its cell unassigned, a
\* candidate valued 0.500001 assigns its cells, and a rider whose time
\* variable is valued 1 has no cell assigned
C3_Witness ==
  /\ pc = "solved" /\ IsDefined(solution) /\ IsDefined(result)
  /\ \E c \in AssignableRanges(input) :
       /\ SolutionValue(c) = Half
       /\ \E t \in c.t1 .. c.t2 : ~Get(result)[c.rider][t]
  /\ \E c \in AssignableRanges(input) :
       /\ SolutionValue(c) = <<500001, 1000000>>
       /\ c.t1 < c.t2
       /\ \A t \in c.t1 .. c.t2 : Get(result)[c.rider][t]
  /\ \E r \in Riders :
       /\ Get(solution).values[TimeName(r)] = Rational(1)
       /\ \A t \in TimeSlices : ~Get(result)[r][t]

----------------------------------------------------------------------------
(* The built model as the engine sees it *)

NewObjective == saturate(Get(objective), Get(constraints))
FeasibleAssignments == Feasible(NewObjective, Get(constraints), TimeLimit(input))

ObjectiveValue(x) == ValueOf(NewObjective, x)
Least(S) == CHOOSE m \in S : \A v \in S : m <= v

\* the feasible assignments of least objective
Minimizers ==
  LET F == FeasibleAssignments
  IN IF F = {} THEN {}
     ELSE LET least == Least({ ObjectiveValue(y) : y \in F })
          IN { x \in F : ObjectiveValue(x) = least }

CandidateNames == { NameOf(c) : c \in AssignableRanges(input) }
TimeNames == { TimeName(r) : r \in Riders }
TotalTime(x) == SumOver(x, TimeNames)
Selected(x) == SumOver(x, CandidateNames)

\* the riders available in a timeslice
AvailableAt(t) == { r \in Riders : input.available[t][r] }

(* C4: when the engine reports no solution, solve() returns undefined       *)
(* without allocating or decoding a grid, never a grid of false; and when   *)
(* some timeslice expects more riders than are available in it, the model   *)
(* has no feasible assignment, so the caller gets undefined.                *)
C4_AbsentResult ==
  /\ (pc = "solved" /\ ~IsDefined(solution)) =>
       assignment = Undefined /\ result = Undefined
  /\ (pc \in {"built", "solved"}
        /\ \E t \in TimeSlices : input.expected[t] > Cardinality(AvailableAt(t))) =>
       /\ FeasibleAssignments = {}
       /\ pc = "solved" => solution = Undefined /\ result = Undefined

\* solve() has returned undefined for a timeslice that expects two riders
\* where one is available
C4_Witness ==
  /\ pc = "solved"
  /\ result = Undefined /\ assignment = Undefined
  /\ \E t \in TimeSlices : input.expected[t] = 2 /\ Cardinality(AvailableAt(t)) = 1

----------------------------------------------------------------------------
(* C5: every assignment that minimizes the objective over the constraints   *)
(* is lexicographically optimal: its total time is the least of all         *)
(* feasible assignments, and it selects the fewest candidates among the     *)
(* feasible assignments of that total time.                                 *)
C5_Lexicographic ==
  pc = "built" =>
    LET F == FeasibleAssignments
        M == Minimizers
    IN M /= {} =>
         LET leastTime == Least({ TotalTime(y) : y \in F })
             fewest == Least({ Selected(y) : y \in { z \in F : TotalTime(z) = leastTime } })
         IN \A x \in M : TotalTime(x) = leastTime /\ Selected(x) = fewest

----------------------------------------------------------------------------
\* the coefficient of time[r] in the objective
K(r) == Get(objective).values[TimeName(r)]

(* C6: the coefficient K of each time[r] in the objective is greater than   *)
(* the number of candidates any feasible assignment selects, and greater    *)
(* than the number of possible assignments.                                 *)
C6_StrictWeight ==
  pc = "built" =>
    \A r \in Riders :
      /\ K(r) > Cardinality(AssignableRanges(input))
      /\ \A x \in FeasibleAssignments : K(r) > Selected(x)

----------------------------------------------------------------------------
(* C7: for a rider r with guaranteed[r] > 0 and no candidate, every         *)
(* minimizer of the model gives time[r] exactly guaranteed[r].              *)
C7_GuaranteedExact ==
  pc = "built" =>
    \A r \in Riders :
      (input.guaranteed[r] > 0 /\ ~\E c \in AssignableRanges(input) : c.rider = r) =>
        \A x \in Minimizers : x[TimeName(r)] = input.guaranteed[r]

----------------------------------------------------------------------------
----------------------------------------------------------------------------
(* lp.ts on its own: an objective and a list of constraints, built and read *)
(* by calls of setCoefficient, getCoefficient, saturate and minimize        *)

\* the variable instances of the caller: two instances share the name x,
\* and one variable is named like a property of Object.prototype
LpVars ==
  { RealVar(0, "x", Undefined, Undefined),
    BoolVar(1, "x"),
    IntVar(2, "y", Some(0), Undefined),
    RealVar(3, "constructor", Undefined, Undefined) }

\* the coefficients the caller sets
Coefficients == {0, MaxCoefficient}

\* the constraints of the caller, before any coefficient is set
LpConstraints ==
  << NewConstraint("c1", Some(0), Undefined), NewConstraint("c2", Undefined, Some(1)) >>

\* the values the engine may give a variable
EngineValues == {Rational(0), Rational(1)}

\* the expression a call is made on: the objective or the i-th constraint
Target(i) == IF i = 0 THEN Get(objective) ELSE Get(constraints)[i]

Call(op, target, v, n, returned) ==
  Some([op |-> op, target |-> target, v |-> v, n |-> n, returned |-> returned])

InitLp ==
  /\ input = Undefined
  /\ pc = "lp"
  /\ error = Undefined
  /\ objective = Some(NewLinExpr)
  /\ constraints = Some(LpConstraints)
  /\ created = LpVars
  /\ solution = Undefined
  /\ assignment = Undefined
  /\ result = Undefined
  /\ call = Undefined

\* target.setCoefficient(v, n)
SetCoefficientCall ==
  /\ pc = "lp"
  /\ \E i \in 0 .. Len(Get(constraints)) : \E v \in created : \E n \in Coefficients :
       LET e == SetCoefficient(Target(i), v, n)
       IN /\ error' = CheckVar(Target(i), v)
          /\ objective' = IF i = 0 THEN Some(e) ELSE objective
          /\ constraints' = IF i = 0 THEN constraints
                            ELSE Some([Get(constraints) EXCEPT ![i] = e])
          /\ call' = Call("setCoefficient", Some(i), Some(v), Some(n), Undefined)
  /\ UNCHANGED <<input, pc, created, solution, assignment, result>>

\* target.getCoefficient(v)
GetCoefficientCall ==
  /\ pc = "lp"
  /\ \E i \in 0 .. Len(Get(constraints)) : \E v \in created :
       LET thrown == CheckVar(Target(i), v)
       IN /\ error' = thrown
          /\ call' = Call("getCoefficient", Some(i), Some(v), Undefined,
                          IF IsDefined(thrown) THEN Undefined
                          ELSE Some(GetCoefficient(Target(i), v)))
  /\ UNCHANGED <<input, pc, objective, constraints, created, solution, assignment, result>>

\* saturate(objective, constraints)
SaturateCall ==
  /\ pc = "lp"
  /\ LET thrown == SaturateThrown(Get(objective), Get(constraints))
     IN /\ error' = thrown
        /\ call' = Call("saturate", Undefined, Undefined, Undefined,
                        IF IsDefined(thrown) THEN Undefined
                        ELSE Some(saturate(Get(objective), Get(constraints))))
  /\ UNCHANGED <<input, pc, objective, constraints, created, solution, assignment, result>>

\* lp.minimize(objective, constraints), with an engine that finds no
\* solution or gives every variable of the saturated objective a value
MinimizeCall ==
  /\ pc = "lp"
  /\ LET thrown == SaturateThrown(Get(objective), Get(constraints))
         newObjective == saturate(Get(objective), Get(constraints))
     IN /\ error' = thrown
        /\ IF IsDefined(thrown)
           THEN call' = Call("minimize", Undefined, Undefined, Undefined, Undefined)
           ELSE \E found \in {Undefined} \cup
                       { Some(ResultOf(newObjective, x)) :
                           x \in [DOMAIN newObjective.keys -> EngineValues] } :
                  call' = Call("minimize", Undefined, Undefined, Undefined, Some(found))
  /\ UNCHANGED <<input, pc, objective, constraints, created, solution, assignment, result>>

NextLp == SetCoefficientCall \/ GetCoefficientCall \/ SaturateCall \/ MinimizeCall

SpecLp == InitLp /\ [][NextLp]_vars

----------------------------------------------------------------------------
(* What the claims about the expression layer speak about *)

\* the variable instances of an expression
VarsOf(e) == { e.keys[n] : n \in DOMAIN e.keys }

\* the variables of all the constraints and of the objective
Universe(obj, cs) == VarsOf(obj) \cup UNION { VarsOf(cs[i]) : i \in DOMAIN cs }

\* no two distinct variable instances of the model share a name
NoCollision(obj, cs) ==
  \A u, w \in Universe(obj, cs) : u.name = w.name => u = w

\* s has the variables of the model, the objective's coefficients for the
\* objective's variables and 0 for the others
IsSaturated(s, obj, cs) ==
  /\ VarsOf(s) = Universe(obj, cs)
  /\ DOMAIN s.values = DOMAIN s.keys
  /\ Cardinality(DOMAIN s.keys) = Cardinality(Universe(obj, cs))
  /\ \A v \in VarsOf(obj) : s.values[v.name] = obj.values[v.name]
  /\ \A v \in Universe(obj, cs) \ VarsOf(obj) : s.values[v.name] = 0

\* the last call was op and returned a value
Returned(c, op) == IsDefined(c) /\ Get(c).op = op /\ IsDefined(Get(c).returned)

(* C12 as stated: for any objective and constraint list, saturate returns *)
(* a new expression whose variables are exactly those of the constraints  *)
(* and of the objective, with the objective's coefficient for the         *)
(* objective's variables and 0 for the others; it leaves the objective    *)
(* and the constraints unchanged; and the solution minimize returns has   *)
(* exactly that variable set.                                             *)
C12_SaturateAny ==
  [][ /\ (IsDefined(call') /\ Get(call').op = "saturate") =>
           /\ IsDefined(Get(call').returned)
           /\ IsSaturated(Get(Get(call').returned), Get(objective), Get(constraints))
           /\ objective' = objective /\ constraints' = constraints
      /\ (Returned(call', "minimize") /\ IsDefined(Get(Get(call').returned))) =>
           VarsOf(Get(Get(Get(call').returned))) = Universe(Get(objective), Get(constraints))
    ]_vars

(* C12, amended: for any objective and constraint list in which no two    *)
(* distinct variable instances share a name, saturate returns a new       *)
(* expression whose variables are exactly those of the constraints and of *)
(* the objective, with the objective's coefficient for the objective's    *)
(* variables and 0 for the others; it leaves the objective and the        *)
(* constraints unchanged; and the solution minimize returns has exactly   *)
(* that variable set.                                                     *)
C12_SaturateUnion ==
  [][ /\ (IsDefined(call') /\ Get(call').op = "saturate"
            /\ NoCollision(Get(objective), Get(constraints))) =>
           /\ error' = Undefined
           /\ IsDefined(Get(call').returned)
           /\ IsSaturated(Get(Get(call').returned), Get(objective), Get(constraints))
           /\ objective' = objective /\ constraints' = constraints
      /\ (Returned(call', "minimize") /\ IsDefined(Get(Get(call').returned))) =>
           /\ VarsOf(Get(Get(Get(call').returned)))
                = Universe(Get(objective), Get(constraints))
           /\ objective' = objective /\ constraints' = constraints
    ]_vars

\* saturate has returned for an objective and two constraints: a variable of
\* the objective and of a constraint keeps the objective's coefficient, which
\* is not the constraint's, and a variable of the other constraint only has
\* coefficient 0, which is not that constraint's
C12_Witness ==
  /\ Returned(call, "saturate")
  /\ LET s == Get(Get(call).returned)
         obj == Get(objective)
         cs == Get(constraints)
     IN /\ \E v \in VarsOf(obj) \cap VarsOf(cs[1]) :
             /\ s.values[v.name] = MaxCoefficient
             /\ cs[1].values[v.name] = 0
        /\ \E v \in VarsOf(cs[2]) \ (VarsOf(obj) \cup VarsOf(cs[1])) :
             /\ s.values[v.name] = 0
             /\ cs[2].values[v.name] = MaxCoefficient

----------------------------------------------------------------------------
(* C13: saturation is idempotent: saturating what saturate returned, with  *)
(* the same constraints, throws nothing and gives the same variable set    *)
(* and the same coefficient for every variable.                            *)
C13_Idempotent ==
  Returned(call, "saturate") =>
    LET s == Get(Get(call).returned)
        again == saturate(s, Get(constraints))
    IN /\ SaturateThrown(s, Get(constraints)) = Undefined
       /\ VarsOf(again) = VarsOf(s)
       /\ DOMAIN again.values = DOMAIN s.values
       /\ \A v \in VarsOf(s) : again.values[v.name] = s.values[v.name]

\* saturate has returned an expression that is not the objective it was
\* given: it has a term of the objective with a coefficient other than 0,
\* and a term with coefficient 0 for a variable that has another coefficient
\* in a constraint
C13_Witness ==
  /\ Returned(call, "saturate")
  /\ LET s == Get(Get(call).returned)
     IN /\ s /= Get(objective)
        /\ \E v \in VarsOf(Get(objective)) : s.values[v.name] = MaxCoefficient
        /\ \E v \in VarsOf(s) \ VarsOf(Get(objective)) :
             \E i \in DOMAIN Get(constraints) :
               /\ v \in VarsOf(Get(constraints)[i])
               /\ Get(constraints)[i].values[v.name] = MaxCoefficient

----------------------------------------------------------------------------
\* the expression a call was made on, after the call
TargetAfter(i) == IF i = 0 THEN Get(objective') ELSE Get(constraints')[i]

\* another instance is registered in e under the name of v
Collides(e, v) == v.name \in DOMAIN e.keys /\ e.keys[v.name] /= v

(* C14: setCoefficient(v, c) with an instance other than the one           *)
(* registered under v's name fails with a name-collision error and leaves  *)
(* the variables and coefficients of the expression unchanged; with the    *)
(* same instance or a new name it succeeds and the stored coefficient      *)
(* becomes exactly c, whatever it was; getCoefficient of a variable never  *)
(* set returns an explicit absent value, not 0.                            *)
C14_SetGetCoefficient ==
  [][ /\ (IsDefined(call') /\ Get(call').op = "setCoefficient") =>
           LET i == Get(Get(call').target)
               v == Get(Get(call').v)
               n == Get(Get(call').n)
               e == Target(i)
               after == TargetAfter(i)
           IN IF Collides(e, v)
              THEN /\ IsDefined(error')
                   /\ Get(error').message = Some("Mismatching variable named " \o v.name)
                   /\ after = e
              ELSE /\ error' = Undefined
                   /\ DOMAIN after.keys = DOMAIN e.keys \cup {v.name}
                   /\ DOMAIN after.values = DOMAIN after.keys
                   /\ after.keys[v.name] = v
                   /\ after.values[v.name] = n
                   /\ \A name \in DOMAIN e.keys \ {v.name} :
                        after.keys[name] = e.keys[name] /\ after.values[name] = e.values[name]
      /\ (IsDefined(call') /\ Get(call').op = "getCoefficient") =>
           LET i == Get(Get(call').target)
               v == Get(Get(call').v)
           IN v \notin VarsOf(Target(i)) =>
                /\ error' = Undefined
                /\ Get(call').returned = Some(Undefined)
                /\ Get(call').returned /= Some(Some(0))
    ]_vars

----------------------------------------------------------------------------
(* C15: every constraint of the list makeLP assembles (timeCounted,        *)
(* enough, enough by type and disjoint) has at least one variable term,    *)
(* also disjoint[r][t] for a timeslice in which r is available and that no *)
(* candidate of r covers, and enough[type][t] for a type that is expected  *)
(* in t while no candidate of that type covers t.                          *)
C15_NoEmptyConstraint ==
  pc = "built" =>
    \A i \in DOMAIN Get(constraints) :
      /\ DOMAIN Get(constraints)[i].keys /= {}
      /\ DOMAIN Get(constraints)[i].values /= {}

----------------------------------------------------------------------------
\* the riders the grid assigns in a timeslice, and the timeslices it assigns
\* to a rider
AssignedAt(grid, t) == { r \in Riders : grid[r][t] }
AssignedTo(grid, r) == { t \in TimeSlices : grid[r][t] }

(* C16: for every assignment that satisfies all the constraints of the     *)
(* built model with each candidate variable valued 0 or 1, the grid        *)
(* solve() decodes assigns a rider only where the rider is available,      *)
(* assigns in every timeslice at least the expected number of riders and,  *)
(* for every type, at least the expected number of riders of that type,    *)
(* and time[r] is at least the total duration of the timeslices the grid   *)
(* assigns to r.                                                           *)
C16_DecodedFeasible ==
  (pc = "solved" /\ IsDefined(solution)) =>
    /\ IsDefined(result)
    /\ LET grid == Get(result)
       IN /\ \A r \in Riders : \A t \in TimeSlices : grid[r][t] => input.available[t][r]
          /\ \A t \in TimeSlices : Cardinality(AssignedAt(grid, t)) >= input.expected[t]
          /\ \A type \in TypesOf(input) : \A t \in TimeSlices :
               Cardinality({ r \in AssignedAt(grid, t) : input.riderType[r] = type })
                 >= input.expectedOfType[type][t]
          /\ \A r \in Riders :
               ~GreaterThan(Rational(SumOver(input.duration, AssignedTo(grid, r))),
                            Get(solution).values[TimeName(r)])

\* a decoded grid for a feasible assignment: a timeslice where a rider of a
\* type is expected and assigned, a rider assigned in timeslices of different
\* durations whose time is their total, a rider whose time is more than what
\* is assigned to them, and a rider left out of a timeslice where they are
\* available
C16_Witness ==
  /\ pc = "solved" /\ IsDefined(solution) /\ IsDefined(result)
  /\ LET grid == Get(result)
     IN /\ \E type \in TypesOf(input) : \E t \in TimeSlices :
             /\ input.expectedOfType[type][t] >= 1
             /\ input.expected[t] >= 1
             /\ \E r \in AssignedAt(grid, t) : input.riderType[r] = type
        /\ \E r \in Riders :
             /\ \E t1, t2 \in AssignedTo(grid, r) : input.duration[t1] < input.duration[t2]
             /\ Get(solution).values[TimeName(r)]
                  = Rational(SumOver(input.duration, AssignedTo(grid, r)))
        /\ \E r \in Riders :
             GreaterThan(Get(solution).values[TimeName(r)],
                         Rational(SumOver(input.duration, AssignedTo(grid, r))))
        /\ \E r \in Riders : \E t \in TimeSlices : input.available[t][r] /\ ~grid[r][t]

====
